---- MODULE Spec2Model ----
(***************************************************************************)
(* Model of the content-import code of FlaxEngine:                         *)
(*   Source/Engine/Tools/ModelTool/ModelTool.h                             *)
(*     - ModelTool::CombineTransformsFromNodeIndices (node hierarchy)      *)
(*     - ImportedModelData::~ImportedModelData (mesh ownership)            *)
(*     - ModelTool::Options::{SplitObjects, ObjectIndex, OnSplitImport}    *)
(*   Source/Engine/ContentImporters/ImportShader.cpp                       *)
(*     - ImportShader::Import                                              *)
(* Each component has its own specification (SpecResolve, SpecShader,      *)
(* SpecDestroy, SpecSplit); the variables of the other components stay at  *)
(* their idle values.                                                      *)
(***************************************************************************)
EXTENDS Integers, Sequences, FiniteSets

\* ------------------------------------------------------------------ bounds
\* Largest node list that is enumerated.
MaxNodes == 3

VARIABLES
    \* --- CombineTransformsFromNodeIndices
    nodes,        \* Array<Node>: sequence of [ParentIndex, LocalTransform]; C++ index i is nodes[i+1]
    rootIndex,    \* the rootIndex argument of the outermost call
    callIndex,    \* the index argument of the outermost call
    stack,        \* active calls, outermost first: [index, pc, result, parent]
    retval,       \* the value returned by the call that returned last
    status,       \* "idle" | "running" | "returned" | "fault" | "overflow"
    visited,      \* the indices whose node was read (nodes[index]), in order
    beyond,       \* what lies in memory after the array's last node, once it has been read
    \* --- ImportShader::Import
    inputReadable,   \* File::ReadAllText succeeds on context.InputPath
    inputText,       \* the file's text, converted to ANSI: a sequence of bytes
    allocFails,      \* context.AllocateChunk fails
    cacheManager,    \* the build defines COMPILE_WITH_SHADER_CACHE_MANAGER
    assetID,         \* context.Data.Header.ID
    spc,             \* the statement Import is at
    sourceCodeText,  \* the local StringAnsi
    chunks,          \* the indices of the allocated chunks of context.Data.Header.Chunks
    chunkData,       \* the Data buffer of the source code chunk (<<>>: not allocated)
    written,         \* the offsets of the buffer that have been written
    customData,      \* context.Data.CustomData
    skipMetadata,    \* context.SkipMetadata
    cache,           \* the asset IDs the shader cache holds an entry for
    cacheBefore,     \* the cache when Import was called
    importResult,    \* the CreateAssetResult returned ("none": not returned yet)
    steps,           \* the statements executed, in order
    \* --- ~ImportedModelData
    LODs,            \* Array<LOD>: LODs[i+1] is the Meshes array of LOD i, a sequence of mesh records
    lodsBefore,      \* LODs when the destructor was entered
    deletes,         \* per mesh record, how many times it was deleted
    di,              \* the loop variable i of the destructor
    dstatus,         \* "idle" | "running" | "destroyed"
    \* --- object splitting
    objectCount,     \* the number of top-level objects of the source file
    hookAccepts,     \* the objects for which the caller's OnSplitImport returns true
    options,         \* Options: [SplitObjects, ObjectIndex]
    splitPos,        \* the object the splitter is at
    offered,         \* the ObjectIndex of every perObjectOptions given to OnSplitImport, in order
    imported,        \* the ObjectIndex of every import performed (-1: all objects in one), in order
    importFailed,    \* the overall import's result (true if fails)
    splitStatus      \* "idle" | "start" | "splitting" | "done"

resolveVars == <<nodes, rootIndex, callIndex, stack, retval, status, visited, beyond>>

shaderVars == <<inputReadable, inputText, allocFails, cacheManager, assetID, spc,
                sourceCodeText, chunks, chunkData, written, customData, skipMetadata,
                cache, cacheBefore, importResult, steps>>

destroyVars == <<LODs, lodsBefore, deletes, di, dstatus>>

splitVars == <<objectCount, hookAccepts, options, splitPos, offered, imported,
               importFailed, splitStatus>>

vars == <<resolveVars, shaderVars, destroyVars, splitVars>>

\* ------------------------------------------------------------ Transform
\* A transform x |-> S*x + T of a line: a translation and a scale, enough for
\* composition to be non-commutative and for a repeated or a missing factor
\* to change the result.
Identity == [T |-> 0, S |-> 1]

\* this.LocalToWorld(other): other, given in the space of this, in world space.
LocalToWorld(this, other) ==
    [T |-> this.S * other.T + this.T, S |-> this.S * other.S]

Palette == << [T |-> 1, S |-> 1], [T |-> 0, S |-> 2], [T |-> 1, S |-> 3], [T |-> 2, S |-> 1] >>

\* The two assignments of palette entries to node positions that are tried.
Variants == {0, 1}

\* --------------------------------------------------------------- Array<Node>
Count(arr) == Len(arr)

\* Array::operator[] is defined for 0 <= index < Count() only.
InRange(arr, index) == index >= 0 /\ index < Count(arr)

At(arr, index) == arr[index + 1]

\* ---------------------------------------- CombineTransformsFromNodeIndices
\* ModelTool.h:402
IsBaseCase_NoRoot(root, index) == index = -1

IsBaseCase(root, index) == index = -1 \/ index = root

\* ModelTool.h:409
Combine_Swapped(parentTransform, result) == LocalToWorld(result, parentTransform)

Combine(parentTransform, result) == LocalToWorld(parentTransform, result)

\* The call stack is finite: a call nested deeper than this overflows it.
MaxDepth == MaxNodes + 4

Top == stack[Len(stack)]

Pop == SubSeq(stack, 1, Len(stack) - 1)

Frame(index) == [index |-> index, pc |-> "entry", result |-> Identity, parent |-> -1]

\* A call returns value v: its frame is popped, and the outermost call's return
\* ends the resolution.
Return(v) ==
    /\ stack' = Pop
    /\ retval' = v
    /\ status' = IF Len(stack) = 1 THEN "returned" ELSE "running"

\* ModelTool.h:402-403
ReturnIdentity ==
    /\ status = "running" /\ Top.pc = "entry"
    /\ IsBaseCase(rootIndex, Top.index)
    /\ Return(Identity)
    /\ UNCHANGED <<nodes, rootIndex, callIndex, visited, beyond>>
    /\ UNCHANGED <<shaderVars, destroyVars, splitVars>>

\* The frame has read nodes[index] as the node n: ModelTool.h:405-408.
\* The check of line 406 repeats the one of line 402 and is kept as written.
Recurse(n) ==
    /\ visited' = Append(visited, Top.index)
    /\ IF Top.index # rootIndex
       THEN IF Len(stack) < MaxDepth
            THEN /\ stack' = Append(
                        [stack EXCEPT ![Len(stack)] =
                            [index |-> Top.index, pc |-> "await",
                             result |-> n.LocalTransform, parent |-> n.ParentIndex]],
                        Frame(n.ParentIndex))
                 /\ UNCHANGED <<retval, status>>
            ELSE /\ status' = "overflow"
                 /\ UNCHANGED <<stack, retval>>
       ELSE Return(n.LocalTransform)
    /\ UNCHANGED <<nodes, rootIndex, callIndex>>

\* ModelTool.h:405-408 with index inside the array.
ReadNode ==
    /\ status = "running" /\ Top.pc = "entry"
    /\ ~IsBaseCase(rootIndex, Top.index)
    /\ InRange(nodes, Top.index)
    /\ Recurse(At(nodes, Top.index))
    /\ UNCHANGED beyond
    /\ UNCHANGED <<shaderVars, destroyVars, splitVars>>

\* ModelTool.h:405-408 with index outside the array: the read is undefined;
\* the build either stops there (the assertion of Array::operator[], a memory
\* fault) or reads whatever lies in memory there as a node. That memory is
\* arbitrary, and the same at every read of one call.
Unread == [ParentIndex |-> -2, LocalTransform |-> Identity]

Garbage ==
    IF beyond # Unread THEN {beyond}
    ELSE [ParentIndex : -1..Count(nodes), LocalTransform : {Palette[2], Palette[3]}]

ReadOutOfRange ==
    /\ status = "running" /\ Top.pc = "entry"
    /\ ~IsBaseCase(rootIndex, Top.index)
    /\ ~InRange(nodes, Top.index)
    /\ \/ /\ status' = "fault"
          /\ UNCHANGED <<nodes, rootIndex, callIndex, stack, retval, visited, beyond>>
       \/ \E n \in Garbage :
              /\ beyond' = n
              /\ Recurse(n)
    /\ UNCHANGED <<shaderVars, destroyVars, splitVars>>

\* ModelTool.h:408-412: the nested call has returned retval.
ReturnCombined ==
    /\ status = "running" /\ Top.pc = "await"
    /\ Return(Combine(retval, Top.result))
    /\ UNCHANGED <<nodes, rootIndex, callIndex, visited, beyond>>
    /\ UNCHANGED <<shaderVars, destroyVars, splitVars>>

\* Node lists: every ParentIndex in -1..Count (Count is a broken index), the
\* LocalTransform of node i taken from the palette.
NodeLists ==
    UNION { { [i \in 1..n |-> [ParentIndex |-> par[i],
                                LocalTransform |-> Palette[((i + v) % Len(Palette)) + 1]]]
              : par \in [1..n -> -1..n] }
            : n \in 0..MaxNodes, v \in Variants }

IdleResolve ==
    /\ nodes = <<>> /\ rootIndex = -1 /\ callIndex = -1
    /\ stack = <<>> /\ retval = Identity /\ status = "idle" /\ visited = <<>>
    /\ beyond = Unread

StartResolve ==
    /\ nodes \in NodeLists
    /\ rootIndex \in -1..Count(nodes)
    /\ callIndex \in -1..Count(nodes)
    /\ stack = << Frame(callIndex) >>
    /\ retval = Identity
    /\ status = "running"
    /\ visited = <<>>
    /\ beyond = Unread

NextResolve ==
    \/ ReturnIdentity
    \/ ReadNode
    \/ ReadOutOfRange
    \/ ReturnCombined

\* ------------------------------------------- the parent chain, as data
ParentOf(i) == At(nodes, i).ParentIndex

\* Every index the call can meet lies inside the array (or is -1).
WellIndexed ==
    /\ callIndex = -1 \/ InRange(nodes, callIndex)
    /\ rootIndex = -1 \/ InRange(nodes, rootIndex)
    /\ \A i \in 0..(Count(nodes) - 1) : ParentOf(i) = -1 \/ InRange(nodes, ParentOf(i))

\* Where the parent chain of i stops: at rootIndex, at -1, at an index outside
\* the array, or (fuel spent) on a cycle.
RECURSIVE Terminus(_, _)
Terminus(i, fuel) ==
    IF i = rootIndex \/ i = -1 \/ ~InRange(nodes, i) \/ fuel = 0 THEN i
    ELSE Terminus(ParentOf(i), fuel - 1)

\* The nodes of the parent chain of i, from i up to (not including) its terminus.
RECURSIVE ChainFrom(_, _)
ChainFrom(i, fuel) ==
    IF i = rootIndex \/ i = -1 \/ ~InRange(nodes, i) \/ fuel = 0 THEN <<>>
    ELSE <<i>> \o ChainFrom(ParentOf(i), fuel - 1)

Chain == ChainFrom(callIndex, Count(nodes) + 1)

ReachesRoot == Terminus(callIndex, Count(nodes) + 1) = rootIndex

\* The local transforms along a chain, the parent's applied to the child's,
\* each one once.
RECURSIVE Along(_)
Along(c) ==
    IF c = <<>> THEN Identity
    ELSE LocalToWorld(Along(Tail(c)), At(nodes, Head(c)).LocalTransform)

\* Node i lies on a parent-index cycle (ParentIndex = i is the cycle of length one).
RECURSIVE ComesBack(_, _, _)
ComesBack(i, j, fuel) ==
    /\ fuel > 0
    /\ InRange(nodes, j)
    /\ \/ ParentOf(j) = i
       \/ ComesBack(i, ParentOf(j), fuel - 1)

HasCycle == \E i \in 0..(Count(nodes) - 1) : ComesBack(i, i, Count(nodes))

NoDuplicates(q) == \A a, b \in 1..Len(q) : q[a] = q[b] => a = b

\* ------------------------------------------------------------------ C1
\* C1: when the parent chain of the target reaches rootIndex, the call returns,
\* and returns the composition of the local transforms along the chain from the
\* target up to (not including) rootIndex, parent applied to child, each node of
\* the chain read and applied exactly once.
C1_ChainComposition ==
    ReachesRoot =>
        /\ status \in {"running", "returned"}
        /\ status = "returned" => /\ retval = Along(Chain)
                                  /\ visited = Chain

C1_Witness ==
    /\ status = "returned" /\ ReachesRoot
    /\ rootIndex >= 0 /\ Len(Chain) >= 2
    /\ retval = Along(Chain)

\* ------------------------------------------------------------------ C2
\* C2 (as claimed): on a node list with a parent-index cycle (a self-referential
\* node included) no call enters the recursive case, that is, reads a node and
\* resolves its parent. Stated for lists whose indices all lie inside the array.
C2_CycleRejectedBeforeRecursion ==
    (WellIndexed /\ HasCycle) => visited = <<>>

\* ------------------------------------------------------------------ C3
ChainMissesRoot ==
    /\ InRange(nodes, callIndex)
    /\ rootIndex # -1
    /\ Terminus(callIndex, Count(nodes) + 1) = -1

\* C3 (as claimed), for the chain that ends at ParentIndex -1 without passing
\* through rootIndex: the call does not return a transform. The target is a
\* node of the list (the call with index = -1 is the base case of C4) and every
\* index lies inside the array, so that no read is undefined. (On a chain that
\* leaves the array the read of line 405 is undefined: ReadOutOfRange.)
C3_BrokenChainIsAnError ==
    (WellIndexed /\ ChainMissesRoot) => status # "returned"

\* ------------------------------------------------------------------ C4
\* C4: with index = rootIndex or index = -1 the call returns Identity, for every
\* node list (the empty one too), without reading any node and without a
\* nested call.
C4_BaseCaseIdentity ==
    (callIndex = -1 \/ callIndex = rootIndex) =>
        /\ visited = <<>> /\ beyond = Unread
        /\ Len(stack) <= 1
        /\ status \in {"running", "returned"}
        /\ status = "returned" => retval = Identity

C4_Witness ==
    /\ status = "returned" /\ retval = Identity /\ visited = <<>>
    /\ callIndex = rootIndex /\ callIndex # -1

\* ------------------------------------------------------------------ C5
\* C5 (as claimed): a resolution on a list of N nodes never nests more than N+1
\* calls, reads no node index twice and never exhausts the stack, cycles
\* included. Stated for lists whose indices all lie inside the array.
C5_BoundedRecursion ==
    WellIndexed =>
        /\ Len(stack) <= Count(nodes) + 1
        /\ NoDuplicates(visited)
        /\ status # "overflow"


\* ============================================================ ImportShader
\* Largest source text that is enumerated.
MaxTextLen == 12

\* ImportShader.cpp:18
SourceCodeChunk == 15

\* ImportShader.cpp:30
MinSourceLength == 10

AssetIDs == {"shaderA", "shaderB"}

\* A byte of a buffer that was allocated and not written yet.
Uninit == 255 + 1

\* The source texts: len bytes, none of them 0.
TextOf(len, seed) == [i \in 1..len |-> 1 + ((seed + 37 * i) % 255)]

Texts == { TextOf(len, seed) : len \in 0..MaxTextLen, seed \in {0, 200} }

\* Encryption::EncryptBytes(data, size): the first size bytes of data are
\* replaced, byte by byte, by their encrypted value; no byte is left as it was.
EncryptByte(b, offset) == (b + 7 * offset + 1) % 256

EncryptBytes(data, size) ==
    [i \in 1..Len(data) |-> IF i <= size THEN EncryptByte(data[i], i - 1) ELSE data[i]]

\* Platform::MemoryCopy(dst, src, size)
MemoryCopy(dst, src, size) ==
    [i \in 1..Len(dst) |-> IF i <= size THEN src[i] ELSE dst[i]]

\* ShaderCacheManager::RemoveCache(id)
RemoveCache(c, id) == c \ {id}

\* ImportShader.cpp:30
IsEmptySource_Inclusive(sourceCodeSize) == sourceCodeSize <= MinSourceLength

IsEmptySource(sourceCodeSize) == sourceCodeSize < MinSourceLength

Step(name) == steps' = Append(steps, name)

ReturnResult(r) == importResult' = r /\ spc' = "done"

\* ImportShader.cpp:16-24
ReadAllText ==
    /\ spc = "ReadAllText"
    /\ Step("ReadAllText")
    /\ skipMetadata' = TRUE
    /\ IF inputReadable
       THEN /\ sourceCodeText' = inputText
            /\ spc' = "AllocateChunk"
            /\ UNCHANGED importResult
       ELSE /\ ReturnResult("InvalidPath")
            /\ UNCHANGED sourceCodeText
    /\ UNCHANGED <<inputReadable, inputText, allocFails, cacheManager, assetID, chunks,
                   chunkData, written, customData, cache, cacheBefore>>
    /\ UNCHANGED <<resolveVars, destroyVars, splitVars>>

\* ImportShader.cpp:27-28
AllocateChunk ==
    /\ spc = "AllocateChunk"
    /\ Step("AllocateChunk")
    /\ IF allocFails
       THEN /\ ReturnResult("CannotAllocateChunk")
            /\ UNCHANGED chunks
       ELSE /\ chunks' = chunks \cup {SourceCodeChunk}
            /\ spc' = "CheckLength"
            /\ UNCHANGED importResult
    /\ UNCHANGED <<inputReadable, inputText, allocFails, cacheManager, assetID,
                   sourceCodeText, chunkData, written, customData, skipMetadata,
                   cache, cacheBefore>>
    /\ UNCHANGED <<resolveVars, destroyVars, splitVars>>

\* ImportShader.cpp:29-34
CheckLength_AfterAllocation ==
    /\ spc = "CheckLength"
    /\ Step("CheckLength")
    /\ chunkData' = [i \in 1..(Len(sourceCodeText) + 1) |-> Uninit]
    /\ IF IsEmptySource(Len(sourceCodeText))
       THEN ReturnResult("Error")
       ELSE spc' = "Allocate" /\ UNCHANGED importResult
    /\ UNCHANGED <<inputReadable, inputText, allocFails, cacheManager, assetID,
                   sourceCodeText, chunks, written, customData, skipMetadata,
                   cache, cacheBefore>>
    /\ UNCHANGED <<resolveVars, destroyVars, splitVars>>

CheckLength ==
    /\ spc = "CheckLength"
    /\ Step("CheckLength")
    /\ IF IsEmptySource(Len(sourceCodeText))
       THEN ReturnResult("Error")
       ELSE spc' = "Allocate" /\ UNCHANGED importResult
    /\ UNCHANGED <<inputReadable, inputText, allocFails, cacheManager, assetID,
                   sourceCodeText, chunks, chunkData, written, customData, skipMetadata,
                   cache, cacheBefore>>
    /\ UNCHANGED <<resolveVars, destroyVars, splitVars>>

\* ImportShader.cpp:35-36
AllocateData ==
    /\ spc = "Allocate"
    /\ Step("Allocate")
    /\ chunkData' = [i \in 1..(Len(sourceCodeText) + 1) |-> Uninit]
    /\ spc' = "MemoryCopy"
    /\ UNCHANGED <<inputReadable, inputText, allocFails, cacheManager, assetID,
                   sourceCodeText, chunks, written, customData, skipMetadata,
                   cache, cacheBefore, importResult>>
    /\ UNCHANGED <<resolveVars, destroyVars, splitVars>>

\* ImportShader.cpp:37-38
CopySource ==
    /\ spc = "MemoryCopy"
    /\ Step("MemoryCopy")
    /\ chunkData' = MemoryCopy(chunkData, sourceCodeText, Len(sourceCodeText))
    /\ written' = written \cup 0..(Len(sourceCodeText) - 1)
    /\ spc' = "EncryptBytes"
    /\ UNCHANGED <<inputReadable, inputText, allocFails, cacheManager, assetID,
                   sourceCodeText, chunks, customData, skipMetadata,
                   cache, cacheBefore, importResult>>
    /\ UNCHANGED <<resolveVars, destroyVars, splitVars>>

\* ImportShader.cpp:41
EncryptSource ==
    /\ spc = "EncryptBytes"
    /\ Step("EncryptBytes")
    /\ chunkData' = EncryptBytes(chunkData, Len(sourceCodeText))
    /\ written' = written \cup 0..(Len(sourceCodeText) - 1)
    /\ spc' = "Terminate"
    /\ UNCHANGED <<inputReadable, inputText, allocFails, cacheManager, assetID,
                   sourceCodeText, chunks, customData, skipMetadata,
                   cache, cacheBefore, importResult>>
    /\ UNCHANGED <<resolveVars, destroyVars, splitVars>>

\* ImportShader.cpp:42
WriteTerminator_OffByOne ==
    /\ spc = "Terminate"
    /\ Step("Terminate")
    /\ chunkData' = [chunkData EXCEPT ![Len(sourceCodeText)] = 0]
    /\ written' = written \cup {Len(sourceCodeText) - 1}
    /\ spc' = "CustomData"
    /\ UNCHANGED <<inputReadable, inputText, allocFails, cacheManager, assetID,
                   sourceCodeText, chunks, customData, skipMetadata,
                   cache, cacheBefore, importResult>>
    /\ UNCHANGED <<resolveVars, destroyVars, splitVars>>

WriteTerminator ==
    /\ spc = "Terminate"
    /\ Step("Terminate")
    /\ chunkData' = [chunkData EXCEPT ![Len(sourceCodeText) + 1] = 0]
    /\ written' = written \cup {Len(sourceCodeText)}
    /\ spc' = "CustomData"
    /\ UNCHANGED <<inputReadable, inputText, allocFails, cacheManager, assetID,
                   sourceCodeText, chunks, customData, skipMetadata,
                   cache, cacheBefore, importResult>>
    /\ UNCHANGED <<resolveVars, destroyVars, splitVars>>

\* ImportShader.cpp:44-49: the header, cleared, becomes the custom data; the
\* statement that follows depends on the build.
SetCustomData ==
    /\ spc = "CustomData"
    /\ Step("CustomData")
    /\ customData' = "Header20"
    /\ spc' = IF cacheManager THEN "RemoveCache" ELSE "ReturnOk"
    /\ UNCHANGED <<inputReadable, inputText, allocFails, cacheManager, assetID,
                   sourceCodeText, chunks, chunkData, written, skipMetadata,
                   cache, cacheBefore, importResult>>
    /\ UNCHANGED <<resolveVars, destroyVars, splitVars>>

\* ImportShader.cpp:49-52
InvalidateShaderCache_OtherID ==
    /\ spc = "RemoveCache"
    /\ Step("RemoveCache")
    /\ cache' = cache \ (AssetIDs \ {assetID})
    /\ spc' = "ReturnOk"
    /\ UNCHANGED <<inputReadable, inputText, allocFails, cacheManager, assetID,
                   sourceCodeText, chunks, chunkData, written, customData, skipMetadata,
                   cacheBefore, importResult>>
    /\ UNCHANGED <<resolveVars, destroyVars, splitVars>>

InvalidateShaderCache ==
    /\ spc = "RemoveCache"
    /\ Step("RemoveCache")
    /\ cache' = RemoveCache(cache, assetID)
    /\ spc' = "ReturnOk"
    /\ UNCHANGED <<inputReadable, inputText, allocFails, cacheManager, assetID,
                   sourceCodeText, chunks, chunkData, written, customData, skipMetadata,
                   cacheBefore, importResult>>
    /\ UNCHANGED <<resolveVars, destroyVars, splitVars>>

\* ImportShader.cpp:54
ReturnOk ==
    /\ spc = "ReturnOk"
    /\ ReturnResult("Ok")
    /\ UNCHANGED <<inputReadable, inputText, allocFails, cacheManager, assetID,
                   sourceCodeText, chunks, chunkData, written, customData, skipMetadata,
                   cache, cacheBefore, steps>>
    /\ UNCHANGED <<resolveVars, destroyVars, splitVars>>

IdleShader ==
    /\ inputReadable = FALSE /\ inputText = <<>> /\ allocFails = FALSE
    /\ cacheManager = FALSE /\ assetID = "shaderA" /\ spc = "idle"
    /\ sourceCodeText = <<>> /\ chunks = {} /\ chunkData = <<>> /\ written = {}
    /\ customData = "empty" /\ skipMetadata = FALSE /\ cache = {} /\ cacheBefore = {}
    /\ importResult = "none" /\ steps = <<>>

\* Import is called with a fresh CreateAssetContext. An unreadable file has no text.
StartShader ==
    /\ inputReadable \in BOOLEAN
    /\ inputText \in IF inputReadable THEN Texts ELSE {<<>>}
    /\ allocFails \in BOOLEAN
    /\ cacheManager \in BOOLEAN
    /\ assetID \in AssetIDs
    /\ cacheBefore \in SUBSET AssetIDs
    /\ cache = cacheBefore
    /\ spc = "ReadAllText"
    /\ sourceCodeText = <<>> /\ chunks = {} /\ chunkData = <<>> /\ written = {}
    /\ customData = "empty" /\ skipMetadata = FALSE
    /\ importResult = "none" /\ steps = <<>>

NextShader ==
    \/ ReadAllText
    \/ AllocateChunk
    \/ CheckLength
    \/ AllocateData
    \/ CopySource
    \/ EncryptSource
    \/ WriteTerminator
    \/ SetCustomData
    \/ InvalidateShaderCache
    \/ ReturnOk

\* ------------------------------------------------------------ ImportShader, claims
Returned == spc = "done"

\* The position of a statement in the statements executed (0: not executed).
StepIndex(name) ==
    IF \E k \in 1..Len(steps) : steps[k] = name
    THEN CHOOSE k \in 1..Len(steps) : steps[k] = name
    ELSE 0

Executed(name) == StepIndex(name) > 0

Before(a, b) == Executed(a) /\ Executed(b) /\ StepIndex(a) < StepIndex(b)

\* ------------------------------------------------------------------ C6
\* C6: Import returns exactly one of InvalidPath, CannotAllocateChunk, Error and
\* Ok, decided in this order: unreadable file, else failed chunk allocation, else
\* a text shorter than 10 characters, else Ok; and the statements executed are
\* those up to the failing one, none after it.
C6_FirstFailureDecides ==
    /\ ~Returned => importResult = "none"
    /\ Returned =>
        IF ~inputReadable
        THEN /\ importResult = "InvalidPath"
             /\ steps = <<"ReadAllText">>
        ELSE IF allocFails
        THEN /\ importResult = "CannotAllocateChunk"
             /\ steps = <<"ReadAllText", "AllocateChunk">>
        ELSE IF Len(inputText) < 10
        THEN /\ importResult = "Error"
             /\ steps = <<"ReadAllText", "AllocateChunk", "CheckLength">>
        ELSE /\ importResult = "Ok"
             /\ SubSeq(steps, 1, 3) = <<"ReadAllText", "AllocateChunk", "CheckLength">>
             /\ Len(steps) > 3

C6_Witness ==
    /\ Returned /\ importResult = "CannotAllocateChunk"
    /\ Len(inputText) < 10 /\ inputReadable

\* ------------------------------------------------------------------ C7
RemovedAfterStore ==
    /\ Executed("RemoveCache")
    /\ assetID \notin cache
    /\ Before("EncryptBytes", "RemoveCache")
    /\ Before("Terminate", "RemoveCache")
    /\ Before("CustomData", "RemoveCache")

CacheUntouched == cache = cacheBefore /\ ~Executed("RemoveCache")

\* C7 (as claimed): every call that returns Ok has removed the cache entry of
\* the asset ID, after the encrypted source and the custom data were stored; a
\* call that returns InvalidPath, CannotAllocateChunk or Error leaves the cache
\* as it was.
C7_CacheInvalidatedOnOk ==
    Returned =>
        /\ importResult = "Ok" => RemovedAfterStore
        /\ importResult # "Ok" => CacheUntouched

\* C7 (amended): the same, for a build with COMPILE_WITH_SHADER_CACHE_MANAGER.
C7_CacheInvalidatedWhenCompiledIn ==
    Returned =>
        /\ (importResult = "Ok" /\ cacheManager) => RemovedAfterStore
        /\ importResult # "Ok" => CacheUntouched

C7_Witness ==
    /\ Returned /\ importResult = "Ok" /\ cacheManager
    /\ assetID \in cacheBefore /\ assetID \notin cache
    /\ cache # {}

\* ------------------------------------------------------------------ C10
\* C10: when Import returns Ok for a text of n bytes (n >= 10), the source code
\* chunk is allocated and holds n+1 bytes: byte i < n is the encrypted byte i of
\* the text, byte n is 0, written after the encryption; offsets 0..n and no
\* other were written.
C10_EncryptedThenTerminated ==
    (Returned /\ importResult = "Ok") =>
        LET n == Len(inputText)
        IN  /\ n >= 10
            /\ SourceCodeChunk \in chunks
            /\ Len(chunkData) = n + 1
            /\ \A i \in 0..(n - 1) : chunkData[i + 1] = EncryptByte(inputText[i + 1], i)
            /\ chunkData[n + 1] = 0
            /\ EncryptByte(0, n) # 0
            /\ written = 0..n
            /\ Before("MemoryCopy", "EncryptBytes")
            /\ Before("EncryptBytes", "Terminate")

C10_Witness ==
    /\ Returned /\ importResult = "Ok"
    /\ Len(inputText) > 10
    /\ Len(chunkData) = Len(inputText) + 1
    /\ chunkData[Len(chunkData)] = 0

\* ------------------------------------------------------------------ C11
NoPayloadStored ==
    /\ chunkData = <<>>
    /\ written = {}
    /\ customData = "empty"
    /\ ~Executed("Allocate") /\ ~Executed("MemoryCopy")
    /\ ~Executed("EncryptBytes") /\ ~Executed("Terminate")
    /\ ~Executed("CustomData")

\* C11: when Import returns InvalidPath, CannotAllocateChunk or Error, no source
\* byte was copied into the source code chunk's data, nothing was encrypted and
\* the custom data was not set. The chunk slot is allocated exactly when the
\* result is Error (the allocation precedes the length check), and its data
\* buffer is then unallocated and empty.
C11_NoPayloadOnFailure ==
    (Returned /\ importResult # "Ok") =>
        /\ importResult \in {"InvalidPath", "CannotAllocateChunk", "Error"}
        /\ NoPayloadStored
        /\ (SourceCodeChunk \in chunks) <=> (importResult = "Error")
        /\ (inputReadable /\ ~allocFails /\ Len(inputText) < 10) => importResult = "Error"

C11_Witness ==
    /\ Returned /\ importResult = "Error"
    /\ Len(inputText) > 0 /\ Len(inputText) < 10
    /\ SourceCodeChunk \in chunks
    /\ chunkData = <<>> /\ customData = "empty"

IdleDestroy ==
    /\ LODs = <<>> /\ lodsBefore = <<>> /\ deletes = <<>> /\ di = 0 /\ dstatus = "idle"

\* ======================================================= ~ImportedModelData
\* Most LODs, and most mesh records, that are enumerated.
MaxLODs == 3

MaxMeshes == 3

MeshRecords == 1..MaxMeshes

\* The elements of a set of numbers as a sequence, smallest first.
RECURSIVE Ascending(_)
Ascending(S) ==
    IF S = {} THEN <<>>
    ELSE LET m == CHOOSE x \in S : \A y \in S : x <= y
         IN  <<m>> \o Ascending(S \ {m})

\* Array<T*>::ClearDelete(): every element is deleted, then the array is cleared.
DeleteAll(meshes, counts) ==
    [m \in DOMAIN counts |->
        counts[m] + Cardinality({k \in 1..Len(meshes) : meshes[k] = m})]

\* ModelTool.h:140, the loop condition
LoopContinues_SkipsLast(i, count) == i < count - 1

LoopContinues(i, count) == i < count

\* ModelTool.h:140-141, one iteration: LODs[i].Meshes.ClearDelete(); i++
DestroyLOD ==
    /\ dstatus = "running"
    /\ LoopContinues(di, Count(LODs))
    /\ deletes' = DeleteAll(At(LODs, di), deletes)
    /\ LODs' = [LODs EXCEPT ![di + 1] = <<>>]
    /\ di' = di + 1
    /\ UNCHANGED <<lodsBefore, dstatus>>
    /\ UNCHANGED <<resolveVars, shaderVars, splitVars>>

\* ModelTool.h:140-142: the loop ends, and the destructor's body with it.
DestroyEnd ==
    /\ dstatus = "running"
    /\ ~LoopContinues(di, Count(LODs))
    /\ dstatus' = "destroyed"
    /\ UNCHANGED <<LODs, lodsBefore, deletes, di>>
    /\ UNCHANGED <<resolveVars, shaderVars, splitVars>>

\* The destructor is entered on a container of up to MaxLODs LODs. Each mesh
\* record belongs to one LOD or to none (owner 0: a record of another
\* container), as the importers build it: ModelTool.h:63-68.
StartDestroy ==
    /\ \E n \in 0..MaxLODs : \E owner \in [MeshRecords -> 0..n] :
           LODs = [l \in 1..n |-> Ascending({m \in MeshRecords : owner[m] = l})]
    /\ lodsBefore = LODs
    /\ deletes = [m \in MeshRecords |-> 0]
    /\ di = 0
    /\ dstatus = "running"

NextDestroy ==
    \/ DestroyLOD
    \/ DestroyEnd

Owned(m) == \E l \in 1..Len(lodsBefore) : \E k \in 1..Len(lodsBefore[l]) : lodsBefore[l][k] = m

\* ------------------------------------------------------------------ C8
\* C8: once the destructor has run, every mesh record that a LOD held has been
\* deleted exactly once, every LOD's mesh list is empty, and no other record
\* was deleted; while it runs no record is deleted twice.
C8_AllMeshesReleasedOnce ==
    /\ \A m \in MeshRecords : deletes[m] <= 1
    /\ dstatus = "destroyed" =>
        /\ \A m \in MeshRecords : deletes[m] = IF Owned(m) THEN 1 ELSE 0
        /\ \A l \in 1..Len(LODs) : LODs[l] = <<>>
        /\ Len(LODs) = Len(lodsBefore)

C8_Witness ==
    /\ dstatus = "destroyed"
    /\ Len(lodsBefore) >= 2
    /\ \A l \in 1..Len(lodsBefore) : Len(lodsBefore[l]) >= 1
    /\ Len(lodsBefore[Len(lodsBefore)]) >= 2
    /\ \A m \in MeshRecords : deletes[m] = 1

IdleSplit ==
    /\ objectCount = 0 /\ hookAccepts = {} /\ options = [SplitObjects |-> FALSE, ObjectIndex |-> -1]
    /\ splitPos = 0 /\ offered = <<>> /\ imported = <<>> /\ importFailed = FALSE
    /\ splitStatus = "idle"

\* ============================================================ object splitting
\* Most top-level objects of a source file that are enumerated.
MaxObjects == 3

\* ModelTool.h:349-354: the defaults of the splitting options.
DefaultOptions == [SplitObjects |-> FALSE, ObjectIndex |-> -1]

\* ModelTool.h:358: the hook, called with the per-object options (and the
\* object's name); the caller decides.
OnSplitImport(splitOptions) == splitOptions.ObjectIndex \in hookAccepts

\* The import splits when SplitObjects is set and ObjectIndex is -1.
Splits(o) == o.SplitObjects /\ o.ObjectIndex = -1

\* The options of the per-object pass for the object at pos.
PerObjectOptions_NextObject(o, pos) == [o EXCEPT !.ObjectIndex = pos + 1]

PerObjectOptions(o, pos) == [o EXCEPT !.ObjectIndex = pos]

\* An import that does not split: one pass, with the options as given.
ImportWhole ==
    /\ splitStatus = "start"
    /\ ~Splits(options)
    /\ imported' = Append(imported, options.ObjectIndex)
    /\ splitStatus' = "done"
    /\ UNCHANGED <<objectCount, hookAccepts, options, splitPos, offered, importFailed>>
    /\ UNCHANGED <<resolveVars, shaderVars, destroyVars>>

BeginSplit ==
    /\ splitStatus = "start"
    /\ Splits(options)
    /\ splitStatus' = "splitting"
    /\ UNCHANGED <<objectCount, hookAccepts, options, splitPos, offered, imported,
                   importFailed>>
    /\ UNCHANGED <<resolveVars, shaderVars, destroyVars>>

\* The object at splitPos is offered to the hook, and imported if the hook
\* returns true; a rejected object is skipped.
SplitObject ==
    /\ splitStatus = "splitting"
    /\ splitPos < objectCount
    /\ LET splitOptions == PerObjectOptions(options, splitPos)
       IN  /\ offered' = Append(offered, splitOptions.ObjectIndex)
           /\ imported' = IF OnSplitImport(splitOptions)
                          THEN Append(imported, splitOptions.ObjectIndex)
                          ELSE imported
    /\ splitPos' = splitPos + 1
    /\ UNCHANGED <<objectCount, hookAccepts, options, importFailed, splitStatus>>
    /\ UNCHANGED <<resolveVars, shaderVars, destroyVars>>

EndSplit ==
    /\ splitStatus = "splitting"
    /\ splitPos >= objectCount
    /\ splitStatus' = "done"
    /\ UNCHANGED <<objectCount, hookAccepts, options, splitPos, offered, imported,
                   importFailed>>
    /\ UNCHANGED <<resolveVars, shaderVars, destroyVars>>

StartSplit ==
    /\ objectCount \in 0..MaxObjects
    /\ hookAccepts \in SUBSET (0..(objectCount - 1))
    /\ options \in {DefaultOptions} \cup
                   [SplitObjects : BOOLEAN, ObjectIndex : -1..(objectCount - 1)]
    /\ splitPos = 0 /\ offered = <<>> /\ imported = <<>> /\ importFailed = FALSE
    /\ splitStatus = "start"

NextSplit ==
    \/ ImportWhole
    \/ BeginSplit
    \/ SplitObject
    \/ EndSplit

\* ------------------------------------------------------------------ C9
\* C9: with SplitObjects set and ObjectIndex = -1, every top-level object is
\* offered to OnSplitImport once, in object order, with ObjectIndex its
\* position; the objects imported are those the hook accepts, in order, and the
\* overall import does not fail because of a rejected object.
C9_SplitOffersEachObjectOnce ==
    Splits(options) =>
        /\ offered = [k \in 1..Len(offered) |-> k - 1]
        /\ Len(offered) = splitPos /\ splitPos <= objectCount
        /\ imported = Ascending({k \in 0..(Len(offered) - 1) : k \in hookAccepts})
        /\ ~importFailed
        /\ splitStatus = "done" => Len(offered) = objectCount

C9_Witness ==
    /\ splitStatus = "done" /\ Splits(options)
    /\ objectCount = 3 /\ hookAccepts = {0, 2}
    /\ offered = <<0, 1, 2>>
    /\ imported = <<0, 2>>
    /\ ~importFailed

\* ================================================================= specifications
InitResolve == StartResolve /\ IdleShader /\ IdleDestroy /\ IdleSplit

InitShader == IdleResolve /\ StartShader /\ IdleDestroy /\ IdleSplit

SpecResolve == InitResolve /\ [][NextResolve]_vars

SpecShader == InitShader /\ [][NextShader]_vars
InitDestroy == IdleResolve /\ IdleShader /\ StartDestroy /\ IdleSplit

InitSplit == IdleResolve /\ IdleShader /\ IdleDestroy /\ StartSplit

SpecDestroy == InitDestroy /\ [][NextDestroy]_vars

SpecSplit == InitSplit /\ [][NextSplit]_vars
====
